---- MODULE Spec2Model ----
(***************************************************************************)
(* A model of the executable snippets of functionsWriteUp.js and           *)
(* objectsWriteUp.js: the callback example, the promise chain, the         *)
(* try/catch/finally async example and the class / sub class example,      *)
(* run by a JavaScript job loop (a script runs to completion, then the     *)
(* microtask queue is drained).                                            *)
(***************************************************************************)
EXTENDS Integers, Sequences, FiniteSets, TLC

VARIABLES
  mode,      \* "script": top-level statements run; "microtasks": the queue drains
  calls,     \* the top-level statements executed so far, with their inputs
  stack,     \* the synchronous call stack, innermost frame last
  jobs,      \* the microtask (promise job) queue, FIFO
  promises,  \* the promises created so far: state, value, pending reactions
  console,   \* what console.error / console.log have printed, in order
  log,       \* the history of function entries and returns, in order
  heap       \* the objects created with new: prototype link and own properties

vars == <<mode, calls, stack, jobs, promises, console, log, heap>>

\* The number of top-level statements one behaviour executes.
MaxCalls == 2

\* The plain values the free names data and error of the promise snippet
\* are bound to, when they are bound to one.
DataValues == {"data1", "data2"}
ErrorValues == {"error1", "error2"}

\* What a free name of the promise snippet stands for when the executor
\* evaluates it: nothing (the name is declared nowhere, as in the file
\* itself), a plain value, or a thenable: a promise, or another object
\* with a then method, that fulfils with a value, rejects with a reason or
\* never does either. A name the executor does not evaluate is "unread".
Bound(v) == [kind |-> "value", state |-> "none", value |-> v]
Unbound == [kind |-> "unbound", state |-> "none", value |-> "none"]
Unread == [kind |-> "unread", state |-> "none", value |-> "none"]
ThenableInput(kind, st, v) == [kind |-> kind, state |-> st, value |-> v]

ThenableKinds == {"promise", "thenable"}

IsThenable(d) == d.kind \in ThenableKinds

\* The value itself, as resolve, reject or a handler receives it.
ValueOf(d) ==
  CASE d.kind = "promise" -> "[object Promise]"
    [] d.kind = "thenable" -> "[object Object]"
    [] OTHER -> d.value

DataInputs ==
  {Bound(v) : v \in DataValues} \cup {Unbound} \cup
  {ThenableInput(k, "fulfilled", "inner-data") : k \in ThenableKinds} \cup
  {ThenableInput(k, "rejected", "inner-error") : k \in ThenableKinds} \cup
  {ThenableInput(k, "pending", "none") : k \in ThenableKinds}

ErrorInputs == {Bound(v) : v \in ErrorValues} \cup {Unbound}

----------------------------------------------------------------------------
(* Frames, statements, events *)

Frame(fn, pc, c) ==
  [fn |-> fn, pc |-> pc, call |-> c, arg |-> "none", aux |-> "none",
   p |-> 0, operand |-> 0, this |-> 0,
   kept |-> [state |-> "none", value |-> "none"]]

Statement(stmt, x, data, error) ==
  [stmt |-> stmt, x |-> x, data |-> data, error |-> error]

Event(ev, fn, c, arg) == [ev |-> ev, fn |-> fn, call |-> c, arg |-> arg]

Top == stack[Len(stack)]
Pop == SubSeq(stack, 1, Len(stack) - 1)
ReplaceTop(f) == [stack EXCEPT ![Len(stack)] = f]

AtTop(fn, pc) == stack # <<>> /\ Top.fn = fn /\ Top.pc = pc

\* A top-level statement can start: the script is running and no call is
\* in progress.
CanCall == mode = "script" /\ stack = <<>> /\ Len(calls) < MaxCalls

----------------------------------------------------------------------------
(* Callback Function: outerFunction(callbackFunction) *)

ArgMutant == "other"

\* let arg = 'value';
Arg == "value"

\* outerFunction(callbackFunction);
CallOuterFunction ==
  /\ CanCall
  /\ calls' = Append(calls, Statement("outerFunction", "none", Unread, Unread))
  /\ stack' = <<[Frame("outerFunction", 81, Len(calls) + 1)
                   EXCEPT !.aux = "callbackFunction"]>>
  /\ log' = Append(log, Event("enter", "outerFunction", Len(calls) + 1,
                              "callbackFunction"))
  /\ UNCHANGED <<mode, jobs, promises, console, heap>>

\* let arg = 'value';
OuterLetArg ==
  /\ AtTop("outerFunction", 81)
  /\ stack' = ReplaceTop([Top EXCEPT !.arg = Arg, !.pc = 82])
  /\ UNCHANGED <<mode, calls, jobs, promises, console, log, heap>>

\* callback(arg);
OuterCallCallback ==
  /\ AtTop("outerFunction", 82)
  /\ stack' = Append(ReplaceTop([Top EXCEPT !.pc = 83]),
                     [Frame(Top.aux, 86, Top.call) EXCEPT !.arg = Top.arg])
  /\ log' = Append(log, Event("enter", Top.aux, Top.call, Top.arg))
  /\ UNCHANGED <<mode, calls, jobs, promises, console, heap>>

\* function callbackFunction(param) { } : no statements, returns
CallbackReturn ==
  /\ AtTop("callbackFunction", 86)
  /\ stack' = Pop
  /\ log' = Append(log, Event("return", "callbackFunction", Top.call, "undefined"))
  /\ UNCHANGED <<mode, calls, jobs, promises, console, heap>>

\* the closing brace of outerFunction
OuterReturn ==
  /\ AtTop("outerFunction", 83)
  /\ stack' = Pop
  /\ log' = Append(log, Event("return", "outerFunction", Top.call, "undefined"))
  /\ UNCHANGED <<mode, calls, jobs, promises, console, heap>>

----------------------------------------------------------------------------
(* Promises *)

NoFrame == Frame("none", 0, 0)

NewPromise(c) ==
  [state |-> "pending", value |-> "none", reactions |-> <<>>, call |-> c]

\* What a promise does when it settles: the handler for each outcome
\* ("none": no handler, the outcome passes through), the promise the
\* reaction settles, and for an await the suspended frame.
Reaction(kind, onFulfilled, onRejected, target, frame) ==
  [kind |-> kind, onFulfilled |-> onFulfilled, onRejected |-> onRejected,
   target |-> target, frame |-> frame,
   kept |-> [state |-> "none", value |-> "none"]]

\* The job that runs reaction r for the outcome st, v of a promise.
ReactionJob(r, st, v, c) ==
  [kind |-> "reaction", reaction |-> r, state |-> st, value |-> v, call |-> c,
   thenable |-> 0, input |-> Unread]

\* The resolving functions of promise target, as a reaction: the outcome
\* they are called with becomes the outcome of target.
Adopt(target) == Reaction("then", "none", "none", target, NoFrame)

\* The job queued when promise target is resolved with the promise
\* thenable: it will call thenable.then with the resolving functions of
\* target.
ThenableJob(target, thenable, c) ==
  [kind |-> "thenable", reaction |-> Adopt(target), state |-> "none",
   value |-> "none", call |-> c, thenable |-> thenable, input |-> Unread]

\* The same job when the thenable is the value of the free name data.
DataThenableJob(target, data, c) ==
  [kind |-> "data thenable", reaction |-> Adopt(target), state |-> "none",
   value |-> "none", call |-> c, thenable |-> 0, input |-> data]

\* A promise settles once: a settled promise keeps its state and value.
Settled(ps, id, st, v) ==
  IF ps[id].state # "pending" THEN ps
  ELSE [ps EXCEPT ![id].state = st, ![id].value = v, ![id].reactions = <<>>]

\* The jobs queued when promise id settles: one per registered reaction,
\* in registration order.
Triggered(ps, id, st, v) ==
  IF ps[id].state # "pending" THEN <<>>
  ELSE [i \in 1..Len(ps[id].reactions) |->
          ReactionJob(ps[id].reactions[i], st, v, ps[id].call)]

\* promise.then / await: a reaction on a pending promise is stored, one on
\* a settled promise is queued as a job at once.
ThenPromises(ps, id, r) ==
  IF ps[id].state = "pending"
  THEN [ps EXCEPT ![id].reactions = Append(@, r)]
  ELSE ps

ThenJobs(ps, id, r) ==
  IF ps[id].state = "pending" THEN <<>>
  ELSE <<ReactionJob(r, ps[id].state, ps[id].value, ps[id].call)>>

\* The handler a reaction runs for an outcome.
HandlerOf(r, st) == IF st = "fulfilled" THEN r.onFulfilled ELSE r.onRejected

HandlerLine(h) ==
  CASE h = "thenHandler" -> 155
    [] h = "catchHandler" -> 158
    [] h = "finallyHandler" -> 161

CanRunJob == mode = "microtasks" /\ stack = <<>> /\ jobs # <<>>

CanRunReaction == CanRunJob /\ jobs[1].kind = "reaction"

\* A promise was resolved with a promise: then is called on that promise
\* with the resolving functions of the first, which stays pending until
\* the reaction runs.
RunThenableJob ==
  /\ CanRunJob
  /\ jobs[1].kind = "thenable"
  /\ LET j == jobs[1]
     IN /\ promises' = ThenPromises(promises, j.thenable, j.reaction)
        /\ jobs' = Tail(jobs) \o ThenJobs(promises, j.thenable, j.reaction)
  /\ UNCHANGED <<mode, calls, stack, console, log, heap>>

\* The promise of myFunction() was resolved with the thenable data:
\* data.then is called with the resolving functions of that promise. A
\* promise queues the reaction for its outcome, or keeps it for ever when
\* it never settles; the then method of another object calls the
\* resolving function for its outcome at once, or none.
RunDataThenableJob ==
  /\ CanRunJob
  /\ jobs[1].kind = "data thenable"
  /\ LET j == jobs[1]
         d == j.input
         t == j.reaction.target
     IN IF d.state = "pending"
        THEN /\ jobs' = Tail(jobs)
             /\ promises' = promises
        ELSE IF d.kind = "promise"
        THEN /\ jobs' = Tail(jobs) \o
                          <<ReactionJob(j.reaction, d.state, d.value, j.call)>>
             /\ promises' = promises
        ELSE /\ promises' = Settled(promises, t, d.state, d.value)
             /\ jobs' = Tail(jobs) \o Triggered(promises, t, d.state, d.value)
  /\ UNCHANGED <<mode, calls, stack, console, log, heap>>

\* A reaction without a handler for the outcome hands the outcome on to
\* the promise it derives.
PassThrough ==
  /\ CanRunReaction
  /\ jobs[1].reaction.kind = "then"
  /\ HandlerOf(jobs[1].reaction, jobs[1].state) = "none"
  /\ LET j == jobs[1]
         t == j.reaction.target
     IN /\ promises' = Settled(promises, t, j.state, j.value)
        /\ jobs' = Tail(jobs) \o Triggered(promises, t, j.state, j.value)
  /\ UNCHANGED <<mode, calls, stack, console, log, heap>>

\* A reaction with a handler for the outcome calls it with the value; the
\* handler given to finally is called without arguments.
InvokeHandler ==
  /\ CanRunReaction
  /\ jobs[1].reaction.kind \in {"then", "finally"}
  /\ HandlerOf(jobs[1].reaction, jobs[1].state) # "none"
  /\ LET j == jobs[1]
         h == HandlerOf(j.reaction, j.state)
         a == IF j.reaction.kind = "finally" THEN "none" ELSE j.value
     IN /\ stack' = <<[Frame(h, HandlerLine(h), j.call)
                         EXCEPT !.arg = a, !.p = j.reaction.target,
                                !.kept = [state |-> j.state, value |-> j.value]]>>
        /\ log' = Append(log, Event("enter", h, j.call, a))
  /\ jobs' = Tail(jobs)
  /\ UNCHANGED <<mode, calls, promises, console, heap>>

----------------------------------------------------------------------------
(* Function Promises: myFunction().then(..).catch(..).finally(..) *)

ExecutorMutant(x, data, error) ==
  IF x = "unbound"
  THEN [do |-> "throw", value |-> "ReferenceError: x is not defined",
        thenable |-> FALSE]
  ELSE IF x = "truthy"
  THEN IF data.kind = "unbound"
       THEN [do |-> "throw", value |-> "ReferenceError: data is not defined",
             thenable |-> FALSE]
       ELSE [do |-> "reject", value |-> ValueOf(data), thenable |-> FALSE]
  ELSE IF error.kind = "unbound"
       THEN [do |-> "throw", value |-> "ReferenceError: error is not defined",
             thenable |-> FALSE]
       ELSE [do |-> "resolve", value |-> ValueOf(error), thenable |-> FALSE]

\* if (x) { resolve(data); } else { reject(error); }
\* What the executor does: evaluating a name that is declared nowhere
\* throws a ReferenceError before resolve or reject is called; thenable
\* tells whether resolve is called with a thenable.
Executor(x, data, error) ==
  IF x = "unbound"
  THEN [do |-> "throw", value |-> "ReferenceError: x is not defined",
        thenable |-> FALSE]
  ELSE IF x = "truthy"
  THEN IF data.kind = "unbound"
       THEN [do |-> "throw", value |-> "ReferenceError: data is not defined",
             thenable |-> FALSE]
       ELSE [do |-> "resolve", value |-> ValueOf(data),
             thenable |-> IsThenable(data)]
  ELSE IF error.kind = "unbound"
       THEN [do |-> "throw", value |-> "ReferenceError: error is not defined",
             thenable |-> FALSE]
       ELSE [do |-> "reject", value |-> ValueOf(error), thenable |-> FALSE]

\* The inputs of the statement: x is always evaluated, data only when x is
\* truthy, error only when x is falsy.
ChainInputs ==
  {Statement("chain", "unbound", Unread, Unread)} \cup
  {Statement("chain", "truthy", d, Unread) : d \in DataInputs} \cup
  {Statement("chain", "falsy", Unread, e) : e \in ErrorInputs}

\* The statement myFunction().then(..).catch(..).finally(..) starts.
CallChain ==
  /\ CanCall
  /\ \E in \in ChainInputs : calls' = Append(calls, in)
  /\ stack' = <<Frame("script", 153, Len(calls) + 1)>>
  /\ UNCHANGED <<mode, jobs, promises, console, log, heap>>

\* myFunction(): the executor runs inside new Promise. reject(error), or
\* an exception thrown by the executor, rejects the promise; resolve(data)
\* fulfils it with a value that is not a thenable, and with a thenable
\* leaves it pending and queues the job that will call data.then.
ChainMyFunction ==
  /\ AtTop("script", 153)
  /\ LET in == calls[Top.call]
         out == Executor(in.x, in.data, in.error)
         id == Len(promises) + 1
         withNew == Append(promises, NewPromise(Top.call))
     IN /\ promises' =
             IF out.do = "resolve" /\ out.thenable THEN withNew
             ELSE IF out.do = "resolve"
             THEN Settled(withNew, id, "fulfilled", out.value)
             ELSE Settled(withNew, id, "rejected", out.value)
        /\ jobs' =
             IF out.do = "resolve" /\ out.thenable
             THEN Append(jobs, DataThenableJob(id, in.data, Top.call))
             ELSE jobs
        /\ stack' = ReplaceTop([Top EXCEPT !.pc = 154, !.p = id])
        /\ log' = Append(log, Event(out.do, "myFunction", Top.call, out.value))
  /\ UNCHANGED <<mode, calls, console, heap>>

\* receiver.then(..) / .catch(..) / .finally(..): a new promise is derived
\* from the receiver, settled by reaction r; it is the next receiver.
Derive(r, nextPc) ==
  LET id == Len(promises) + 1
      withNew == Append(promises, NewPromise(Top.call))
      rr == [r EXCEPT !.target = id]
  IN /\ promises' = ThenPromises(withNew, Top.p, rr)
     /\ jobs' = jobs \o ThenJobs(withNew, Top.p, rr)
     /\ stack' = IF nextPc = 0 THEN Pop
                 ELSE ReplaceTop([Top EXCEPT !.pc = nextPc, !.p = id])
     /\ UNCHANGED <<mode, calls, console, log, heap>>

\* .then(data => { data; })
ThenReaction == Reaction("then", "thenHandler", "none", 0, NoFrame)

\* .catch(error => { error; })
CatchReaction == Reaction("then", "none", "catchHandler", 0, NoFrame)

FinallyReactionMutant == Reaction("then", "none", "finallyHandler", 0, NoFrame)

\* .finally(() => { })
FinallyReaction == Reaction("finally", "finallyHandler", "finallyHandler", 0, NoFrame)

ChainThen == AtTop("script", 154) /\ Derive(ThenReaction, 157)

ChainCatch == AtTop("script", 157) /\ Derive(CatchReaction, 160)

ChainFinally == AtTop("script", 160) /\ Derive(FinallyReaction, 0)

\* A then or catch handler returns undefined: the derived promise is
\* fulfilled with undefined.
HandlerReturn ==
  /\ stack # <<>> /\ Top.fn \in {"thenHandler", "catchHandler"}
  /\ promises' = Settled(promises, Top.p, "fulfilled", "undefined")
  /\ jobs' = jobs \o Triggered(promises, Top.p, "fulfilled", "undefined")
  /\ stack' = Pop
  /\ log' = Append(log, Event("return", Top.fn, Top.call, "undefined"))
  /\ UNCHANGED <<mode, calls, console, heap>>

\* The finally handler returns undefined. finally then returns
\* Promise.resolve(undefined).then(thunk), where the thunk gives back the
\* outcome the receiver had: the thunk's job is queued, and the derived
\* promise, resolved with that new promise, stays pending and queues the
\* job that makes it follow it.
FinallyReturn ==
  /\ stack # <<>> /\ Top.fn = "finallyHandler"
  /\ LET a == Len(promises) + 1
         b == Len(promises) + 2
         thunk == [Reaction("thunk", "thunk", "thunk", b, NoFrame)
                     EXCEPT !.kept = Top.kept]
     IN /\ promises' =
             promises \o
               <<[NewPromise(Top.call) EXCEPT !.state = "fulfilled",
                                             !.value = "undefined"],
                 NewPromise(Top.call)>>
        /\ jobs' = jobs \o <<ReactionJob(thunk, "fulfilled", "undefined", Top.call),
                             ThenableJob(Top.p, b, Top.call)>>
  /\ stack' = Pop
  /\ log' = Append(log, Event("return", Top.fn, Top.call, "undefined"))
  /\ UNCHANGED <<mode, calls, console, heap>>

\* The thunk of finally runs: it returns the value the receiver was
\* fulfilled with, or throws the reason it was rejected with, and so
\* settles the promise derived from Promise.resolve(undefined).
RunThunk ==
  /\ CanRunReaction
  /\ jobs[1].reaction.kind = "thunk"
  /\ LET r == jobs[1].reaction
     IN /\ promises' = Settled(promises, r.target, r.kept.state, r.kept.value)
        /\ jobs' = Tail(jobs) \o
                     Triggered(promises, r.target, r.kept.state, r.kept.value)
  /\ UNCHANGED <<mode, calls, stack, console, log, heap>>

----------------------------------------------------------------------------
(* try...catch async-await: thisThrows and run *)

\* new Error('Thrown from thisThrows()')
ThrownError == "Error: Thrown from thisThrows()"

\* run();
CallRun ==
  /\ CanCall
  /\ calls' = Append(calls, Statement("run", "none", Unread, Unread))
  /\ promises' = Append(promises, NewPromise(Len(calls) + 1))
  /\ stack' = <<[Frame("run", 204, Len(calls) + 1)
                   EXCEPT !.p = Len(promises) + 1, !.aux = "call"]>>
  /\ log' = Append(log, Event("enter", "run", Len(calls) + 1, "none"))
  /\ UNCHANGED <<mode, jobs, console, heap>>

\* await thisThrows(): the call
RunCallThisThrows ==
  /\ AtTop("run", 204) /\ Top.aux = "call"
  /\ promises' = Append(promises, NewPromise(Top.call))
  /\ stack' = Append(ReplaceTop([Top EXCEPT !.aux = "await"]),
                     [Frame("thisThrows", 199, Top.call)
                        EXCEPT !.p = Len(promises) + 1])
  /\ log' = Append(log, Event("enter", "thisThrows", Top.call, "none"))
  /\ UNCHANGED <<mode, calls, jobs, console, heap>>

\* throw new Error(..) in an async function: its promise is rejected with
\* the error and returned to the caller.
ThisThrowsThrow ==
  /\ AtTop("thisThrows", 199)
  /\ promises' = Settled(promises, Top.p, "rejected", ThrownError)
  /\ jobs' = jobs \o Triggered(promises, Top.p, "rejected", ThrownError)
  /\ stack' = LET caller == Pop[Len(Pop)]
              IN [Pop EXCEPT ![Len(Pop)] = [caller EXCEPT !.operand = Top.p]]
  /\ log' = Append(log, Event("throw", "thisThrows", Top.call, ThrownError))
  /\ UNCHANGED <<mode, calls, console, heap>>

\* await thisThrows(): run is suspended on the returned promise and
\* returns its own promise to its caller.
RunAwait ==
  /\ AtTop("run", 204) /\ Top.aux = "await"
  /\ LET r == Reaction("await", "none", "none", 0, Top)
     IN /\ promises' = ThenPromises(promises, Top.operand, r)
        /\ jobs' = jobs \o ThenJobs(promises, Top.operand, r)
  /\ stack' = Pop
  /\ log' = Append(log, Event("suspend", "run", Top.call, "none"))
  /\ UNCHANGED <<mode, calls, console, heap>>

ResumeLineMutant(st) == 208

\* Where run continues after the await in the try block: a rejection is
\* thrown at the await and caught by catch (e); otherwise the try block is
\* over and finally follows.
ResumeLine(st) == IF st = "rejected" THEN 206 ELSE 208

\* The awaited promise has settled: the suspended function continues.
ResumeAsync ==
  /\ CanRunReaction
  /\ jobs[1].reaction.kind = "await"
  /\ LET j == jobs[1]
     IN stack' = <<[j.reaction.frame EXCEPT !.pc = ResumeLine(j.state),
                                            !.arg = j.value, !.aux = j.state]>>
  /\ jobs' = Tail(jobs)
  /\ UNCHANGED <<mode, calls, promises, console, log, heap>>

Printed(stream, text, c) == [stream |-> stream, text |-> text, call |-> c]

\* catch (e) { console.error(e); }
RunCatch ==
  /\ AtTop("run", 206)
  /\ console' = Append(console, Printed("error", Top.arg, Top.call))
  /\ log' = Append(log, Event("enter", "catch", Top.call, Top.arg))
  /\ stack' = ReplaceTop([Top EXCEPT !.pc = 208])
  /\ UNCHANGED <<mode, calls, jobs, promises, heap>>

\* finally { console.log('We do cleanup here'); }
RunFinally ==
  /\ AtTop("run", 208)
  /\ console' = Append(console, Printed("log", "We do cleanup here", Top.call))
  /\ log' = Append(log, Event("enter", "finally", Top.call, "none"))
  /\ stack' = ReplaceTop([Top EXCEPT !.pc = 210])
  /\ UNCHANGED <<mode, calls, jobs, promises, heap>>

\* the closing brace of run: its promise is fulfilled with undefined
RunReturn ==
  /\ AtTop("run", 210)
  /\ promises' = Settled(promises, Top.p, "fulfilled", "undefined")
  /\ jobs' = jobs \o Triggered(promises, Top.p, "fulfilled", "undefined")
  /\ stack' = Pop
  /\ log' = Append(log, Event("return", "run", Top.call, "undefined"))
  /\ UNCHANGED <<mode, calls, console, heap>>

----------------------------------------------------------------------------
(* Constructor Functions, Classes and Sub Classes: ConsObj, ObjClass,      *)
(* ObjClass2, new                                                          *)

\* A data property, and an accessor property (its value is what the getter
\* returns for the object the lookup started on).
Property(key, value) == [key |-> key, value |-> value, accessor |-> FALSE]
Accessor(key) == [key |-> key, value |-> "getter", accessor |-> TRUE]

\* The own properties of the prototype objects: the ones the class
\* declarations create, ConsObj.prototype with the myFunction2 assigned to
\* it, and the built-in Object.prototype.
PrototypeOwn(name) ==
  CASE name = "ConsObj.prototype" ->
         <<Property("constructor", "ConsObj()"),
           Property("myFunction2", "myFunction2()")>>
    [] name = "ObjClass2.prototype" ->
         <<Property("constructor", "class ObjClass2"),
           Property("myFunction4", "myFunction4()")>>
    [] name = "ObjClass.prototype" ->
         <<Property("constructor", "class ObjClass"),
           Property("myFunction2", "myFunction2()")>>
    [] name = "Object.prototype" ->
         <<Property("constructor", "function Object"),
           Property("__defineGetter__", "__defineGetter__()"),
           Property("__defineSetter__", "__defineSetter__()"),
           Property("hasOwnProperty", "hasOwnProperty()"),
           Property("__lookupGetter__", "__lookupGetter__()"),
           Property("__lookupSetter__", "__lookupSetter__()"),
           Property("isPrototypeOf", "isPrototypeOf()"),
           Property("propertyIsEnumerable", "propertyIsEnumerable()"),
           Property("toString", "toString()"),
           Property("valueOf", "valueOf()"),
           Accessor("__proto__"),
           Property("toLocaleString", "toLocaleString()")>>

PrototypeLinkMutant(name) ==
  CASE name = "ConsObj.prototype" -> "Object.prototype"
    [] name = "ObjClass2.prototype" -> "Object.prototype"
    [] name = "ObjClass.prototype" -> "Object.prototype"
    [] name = "Object.prototype" -> "null"

\* The __proto__ of each of them: class ObjClass2 extends ObjClass links
\* ObjClass2.prototype to ObjClass.prototype.
PrototypeLink(name) ==
  CASE name = "ConsObj.prototype" -> "Object.prototype"
    [] name = "ObjClass2.prototype" -> "ObjClass.prototype"
    [] name = "ObjClass.prototype" -> "Object.prototype"
    [] name = "Object.prototype" -> "null"

\* The prototype property of a constructor function or class.
PrototypeOf(class) ==
  CASE class = "ConsObj" -> "ConsObj.prototype"
    [] class = "ObjClass2" -> "ObjClass2.prototype"
    [] class = "ObjClass" -> "ObjClass.prototype"

HasOwn(own, key) == \E i \in 1..Len(own) : own[i].key = key

\* this.key = value: a new key is added after the existing ones, an
\* existing key keeps its place.
SetOwn(own, key, value) ==
  IF HasOwn(own, key)
  THEN [i \in 1..Len(own) |->
          IF own[i].key = key THEN Property(key, value) ELSE own[i]]
  ELSE Append(own, Property(key, value))

OwnProperty(own, key) == own[CHOOSE i \in 1..Len(own) : own[i].key = key]

\* Reading a found property for a receiver whose prototype is
\* receiverProto: a data property gives its value; the accessor __proto__
\* of Object.prototype calls its getter with the receiver and gives the
\* receiver's prototype.
ReadProperty(prop, receiverProto) ==
  IF prop.accessor THEN receiverProto ELSE prop.value

RECURSIVE LookupFrom(_, _, _, _)
\* Property lookup from prototype name on, for a receiver whose prototype
\* is receiverProto: the value, the object it was found on and the number
\* of prototype links followed.
LookupFrom(name, key, steps, receiverProto) ==
  IF name = "null"
  THEN [value |-> "undefined", holder |-> "none", steps |-> steps]
  ELSE IF HasOwn(PrototypeOwn(name), key)
  THEN [value |-> ReadProperty(OwnProperty(PrototypeOwn(name), key),
                               receiverProto),
        holder |-> name, steps |-> steps]
  ELSE LookupFrom(PrototypeLink(name), key, steps + 1, receiverProto)

\* Property lookup on an instance: its own properties first, then the
\* prototype chain.
Lookup(o, key) ==
  IF HasOwn(o.own, key)
  THEN [value |-> ReadProperty(OwnProperty(o.own, key), o.proto),
        holder |-> "own", steps |-> 0]
  ELSE LookupFrom(o.proto, key, 1, o.proto)

\* Property lookup on a prototype object itself.
LookupOnPrototype(name, key) ==
  LookupFrom(name, key, 0, PrototypeLink(name))

\* The base constructor is entered for new.target: the instance is
\* created linked to the prototype of new.target.
Allocated(newTarget, c) ==
  [proto |-> PrototypeOf(newTarget), own |-> <<>>, class |-> newTarget,
   call |-> c, constructed |-> FALSE]

\* const obj2 = new ConsObj();
NewConsObj ==
  /\ CanCall
  /\ calls' = Append(calls, Statement("new ConsObj", "none", Unread, Unread))
  /\ heap' = Append(heap, Allocated("ConsObj", Len(calls) + 1))
  /\ stack' = <<[Frame("ConsObj", 29, Len(calls) + 1)
                   EXCEPT !.aux = "ConsObj", !.this = Len(heap) + 1]>>
  /\ log' = Append(log, Event("enter", "ConsObj", Len(calls) + 1, "ConsObj"))
  /\ UNCHANGED <<mode, jobs, promises, console>>

\* const obj4 = new ObjClass();
NewObjClass ==
  /\ CanCall
  /\ calls' = Append(calls, Statement("new ObjClass", "none", Unread, Unread))
  /\ heap' = Append(heap, Allocated("ObjClass", Len(calls) + 1))
  /\ stack' = <<[Frame("ObjClass", 92, Len(calls) + 1)
                   EXCEPT !.aux = "ObjClass", !.this = Len(heap) + 1]>>
  /\ log' = Append(log, Event("enter", "ObjClass", Len(calls) + 1, "ObjClass"))
  /\ UNCHANGED <<mode, jobs, promises, console>>

\* const obj5 = new ObjClass2();
NewObjClass2 ==
  /\ CanCall
  /\ calls' = Append(calls, Statement("new ObjClass2", "none", Unread, Unread))
  /\ stack' = <<[Frame("ObjClass2", 123, Len(calls) + 1)
                   EXCEPT !.aux = "ObjClass2"]>>
  /\ log' = Append(log, Event("enter", "ObjClass2", Len(calls) + 1, "ObjClass2"))
  /\ UNCHANGED <<mode, jobs, promises, console, heap>>

\* super(); the base constructor runs with the same new.target
Ctor2Super ==
  /\ AtTop("ObjClass2", 123)
  /\ heap' = Append(heap, Allocated(Top.aux, Top.call))
  /\ stack' = Append(ReplaceTop([Top EXCEPT !.pc = 124]),
                     [Frame("ObjClass", 92, Top.call)
                        EXCEPT !.aux = Top.aux, !.this = Len(heap) + 1])
  /\ log' = Append(log, Event("enter", "ObjClass", Top.call, Top.aux))
  /\ UNCHANGED <<mode, calls, jobs, promises, console>>

\* this.key = value in the constructor on top of the stack
Assign(key, value, nextPc) ==
  /\ heap' = [heap EXCEPT ![Top.this].own = SetOwn(@, key, value)]
  /\ stack' = ReplaceTop([Top EXCEPT !.pc = nextPc])
  /\ log' = Append(log, Event("set", Top.fn, Top.call, key))
  /\ UNCHANGED <<mode, calls, jobs, promises, console>>

\* ConsObj: this.key1 = 'value';
ConsKey1 == AtTop("ConsObj", 29) /\ Assign("key1", "value", 30)

\* ConsObj: this.key2 = function myFunction() { };
ConsKey2 == AtTop("ConsObj", 30) /\ Assign("key2", "myFunction()", 33)

\* ConsObj returns this to new.
ConsReturn ==
  /\ AtTop("ConsObj", 33)
  /\ stack' = Pop
  /\ heap' = [heap EXCEPT ![Top.this].constructed = TRUE]
  /\ log' = Append(log, Event("return", "ConsObj", Top.call, "this"))
  /\ UNCHANGED <<mode, calls, jobs, promises, console>>

\* this.key1 = 'value';
BaseKey1 == AtTop("ObjClass", 92) /\ Assign("key1", "value", 93)

\* this.key2 = function myFunction() { };
BaseKey2 == AtTop("ObjClass", 93) /\ Assign("key2", "myFunction()", 96)

\* The base constructor returns this: to new, or to the constructor that
\* called super(), whose this it becomes.
BaseReturn ==
  /\ AtTop("ObjClass", 96)
  /\ IF Len(stack) = 1
     THEN /\ stack' = <<>>
          /\ heap' = [heap EXCEPT ![Top.this].constructed = TRUE]
     ELSE /\ stack' = [Pop EXCEPT ![Len(Pop)].this = Top.this]
          /\ heap' = heap
  /\ log' = Append(log, Event("return", "ObjClass", Top.call, "this"))
  /\ UNCHANGED <<mode, calls, jobs, promises, console>>

\* this.key3 = 'value';
Ctor2Key3 == AtTop("ObjClass2", 124) /\ Assign("key3", "value", 125)

\* this.key4 = function myFunction3() { };
Ctor2Key4 == AtTop("ObjClass2", 125) /\ Assign("key4", "myFunction3()", 128)

\* The constructor of ObjClass2 returns this to new.
Ctor2Return ==
  /\ AtTop("ObjClass2", 128)
  /\ stack' = Pop
  /\ heap' = [heap EXCEPT ![Top.this].constructed = TRUE]
  /\ log' = Append(log, Event("return", "ObjClass2", Top.call, "this"))
  /\ UNCHANGED <<mode, calls, jobs, promises, console>>

----------------------------------------------------------------------------
(* The job loop *)

\* The running script ends; the microtask queue is drained next.
EndScript ==
  /\ mode = "script" /\ stack = <<>>
  /\ mode' = "microtasks"
  /\ UNCHANGED <<calls, stack, jobs, promises, console, log, heap>>

\* The queue is empty: the next script may run.
NextScript ==
  /\ mode = "microtasks" /\ stack = <<>> /\ jobs = <<>>
  /\ Len(calls) < MaxCalls
  /\ mode' = "script"
  /\ UNCHANGED <<calls, stack, jobs, promises, console, log, heap>>

Init ==
  /\ mode = "script"
  /\ calls = <<>>
  /\ stack = <<>>
  /\ jobs = <<>>
  /\ promises = <<>>
  /\ console = <<>>
  /\ log = <<>>
  /\ heap = <<>>

Next ==
  \/ CallOuterFunction
  \/ OuterLetArg
  \/ OuterCallCallback
  \/ CallbackReturn
  \/ OuterReturn
  \/ CallChain
  \/ ChainMyFunction
  \/ ChainThen
  \/ ChainCatch
  \/ ChainFinally
  \/ PassThrough
  \/ InvokeHandler
  \/ HandlerReturn
  \/ FinallyReturn
  \/ RunThunk
  \/ RunThenableJob
  \/ RunDataThenableJob
  \/ CallRun
  \/ RunCallThisThrows
  \/ ThisThrowsThrow
  \/ RunAwait
  \/ ResumeAsync
  \/ RunCatch
  \/ RunFinally
  \/ RunReturn
  \/ NewConsObj
  \/ ConsKey1
  \/ ConsKey2
  \/ ConsReturn
  \/ NewObjClass
  \/ NewObjClass2
  \/ Ctor2Super
  \/ BaseKey1
  \/ BaseKey2
  \/ BaseReturn
  \/ Ctor2Key3
  \/ Ctor2Key4
  \/ Ctor2Return
  \/ EndScript
  \/ NextScript

Spec == Init /\ [][Next]_vars

----------------------------------------------------------------------------
(* Properties *)

\* The positions in the history of the events ev of function fn in the
\* top-level statement c.
EventsAt(c, ev, fn) ==
  {i \in DOMAIN log : log[i].call = c /\ log[i].ev = ev /\ log[i].fn = fn}

Count(c, ev, fn) == Cardinality(EventsAt(c, ev, fn))

\* Statement c has run to its end: no frame and no queued job belongs to it.
Quiescent(c) ==
  /\ c \in DOMAIN calls
  /\ \A i \in DOMAIN stack : stack[i].call # c
  /\ \A i \in DOMAIN jobs : jobs[i].call # c

ConsoleOf(c) == SelectSeq(console, LAMBDA e : e.call = c)

CallsOf(stmt) == {c \in DOMAIN calls : calls[c].stmt = stmt}

\* C1: in every call of run(), the catch block runs at most once, with the
\* Error thrown by thisThrows(), and the finally block at most once; the
\* finally block never runs before the catch block, and the cleanup line
\* is never printed before the error; when the call has run to its end,
\* the catch block and the finally block have each run exactly once and
\* the console shows the error followed by 'We do cleanup here'.
C1_CatchThenFinally ==
  \A c \in CallsOf("run") :
    /\ Count(c, "enter", "catch") <= 1
    /\ Count(c, "enter", "finally") <= 1
    /\ \A i \in EventsAt(c, "enter", "catch") :
         log[i].arg = "Error: Thrown from thisThrows()"
    /\ \A i \in EventsAt(c, "enter", "finally") :
         \E k \in EventsAt(c, "enter", "catch") : k < i
    /\ \A i \in DOMAIN ConsoleOf(c) :
         ConsoleOf(c)[i].stream = "log" =>
           \E k \in 1..(i - 1) : ConsoleOf(c)[k].stream = "error"
    /\ Quiescent(c) =>
         /\ Count(c, "enter", "catch") = 1
         /\ Count(c, "enter", "finally") = 1
         /\ ConsoleOf(c) =
              <<Printed("error", "Error: Thrown from thisThrows()", c),
                Printed("log", "We do cleanup here", c)>>

\* A call of run() has run to its end and printed both lines.
C1_Witness ==
  \E c \in CallsOf("run") :
    /\ Quiescent(c)
    /\ Count(c, "throw", "thisThrows") = 1
    /\ Len(ConsoleOf(c)) = 2

HandlersRun(c) ==
  Count(c, "enter", "thenHandler") + Count(c, "enter", "catchHandler")

\* The executor of chain c called resolve, or reject, or threw.
Called(c, f) == Count(c, f, "myFunction") = 1

\* The state of the promise myFunction() returned in chain c, the first
\* promise the chain creates ("none" before it exists).
Outcome(c) ==
  LET own == {i \in 1..Len(promises) : promises[i].call = c}
  IN IF own = {} THEN "none"
     ELSE promises[CHOOSE i \in own : \A k \in own : i <= k].state

\* The ReferenceError the executor of chain c throws when a name it
\* evaluates is declared nowhere.
Thrown(c) ==
  IF calls[c].x = "unbound" THEN "ReferenceError: x is not defined"
  ELSE IF calls[c].x = "truthy" THEN "ReferenceError: data is not defined"
  ELSE "ReferenceError: error is not defined"

C3_FinallyOnceAndLast ==
  \A c \in CallsOf("chain") :
    /\ Count(c, "enter", "finallyHandler") <= 1
    /\ \A i \in EventsAt(c, "enter", "finallyHandler") :
         /\ \E k \in EventsAt(c, "return", "thenHandler")
                       \cup EventsAt(c, "return", "catchHandler") : k < i
         /\ \A k \in EventsAt(c, "enter", "thenHandler")
                       \cup EventsAt(c, "enter", "catchHandler") : k < i
         /\ Outcome(c) = "fulfilled" =>
              Count(c, "return", "thenHandler") = 1
         /\ Outcome(c) = "rejected" =>
              Count(c, "return", "catchHandler") = 1
         /\ Outcome(c) \in {"fulfilled", "rejected"}
    /\ (Quiescent(c) /\ Outcome(c) \in {"fulfilled", "rejected"}) =>
         Count(c, "enter", "finallyHandler") = 1

\* A chain whose promise was fulfilled and one whose promise was rejected
\* have both run to their end, with the finally handler called in each
\* after the handler of the outcome.
C3_Witness ==
  \E c, d \in CallsOf("chain") :
    /\ Quiescent(c) /\ Quiescent(d)
    /\ Outcome(c) = "fulfilled" /\ Outcome(d) = "rejected"
    /\ Count(c, "enter", "thenHandler") = 1
    /\ Count(d, "enter", "catchHandler") = 1
    /\ Count(c, "enter", "finallyHandler") = 1
    /\ Count(d, "enter", "finallyHandler") = 1

\* C5: the callback is entered only in a call of outerFunction, after
\* outerFunction was entered and before it returns, at most once per call
\* and with the argument 'value'; when the call has run to its end, the
\* callback has been entered exactly once and has returned before
\* outerFunction did.
C5_CallbackOnceInside ==
  /\ \A i \in DOMAIN log :
       log[i].fn = "callbackFunction" =>
         /\ log[i].call \in CallsOf("outerFunction")
         /\ \E k \in EventsAt(log[i].call, "enter", "outerFunction") : k < i
         /\ \A k \in EventsAt(log[i].call, "return", "outerFunction") : i < k
  /\ \A c \in CallsOf("outerFunction") :
       /\ Count(c, "enter", "callbackFunction") <= 1
       /\ \A i \in EventsAt(c, "enter", "callbackFunction") :
            log[i].arg = "value"
       /\ Quiescent(c) =>
            /\ Count(c, "enter", "callbackFunction") = 1
            /\ Count(c, "return", "callbackFunction") = 1
            /\ Count(c, "return", "outerFunction") = 1

\* A call of outerFunction has returned, with the callback called in it.
C5_Witness ==
  \E c \in CallsOf("outerFunction") :
    /\ Quiescent(c)
    /\ Count(c, "enter", "callbackFunction") = 1

OwnKeys(o) == [i \in 1..Len(o.own) |-> o.own[i].key]

IsPrefix(s, t) == Len(s) <= Len(t) /\ s = SubSeq(t, 1, Len(s))

RECURSIVE ChainFrom(_)
\* The prototypes from name up to the end of the chain.
ChainFrom(name) ==
  IF name = "null" THEN <<>> ELSE <<name>> \o ChainFrom(PrototypeLink(name))

\* C6: for every instance made by new ObjClass2(): its own keys are, at
\* every moment, the first ones of key1, key2, key3, key4 in this order;
\* key1 and key2 are assigned in the constructor of ObjClass (the super()
\* call), key3 and key4 in the constructor of ObjClass2; its prototype
\* chain is ObjClass2.prototype, ObjClass.prototype, Object.prototype;
\* and once new has returned, it owns the four keys, myFunction4 is found
\* on the first prototype, myFunction2 on the second, constructor is class
\* ObjClass2, and a name that is nowhere on the chain is undefined after
\* the whole chain (three prototypes) has been walked; reading __proto__
\* gives the next object of the chain at each step, and null at its end.
C6_Obj5Shape ==
  \A id \in DOMAIN heap :
    heap[id].class = "ObjClass2" =>
      LET o == heap[id] IN
      /\ IsPrefix(OwnKeys(o), <<"key1", "key2", "key3", "key4">>)
      /\ \A i \in DOMAIN log :
           (log[i].call = o.call /\ log[i].ev = "set") =>
             /\ log[i].arg \in {"key1", "key2"} <=> log[i].fn = "ObjClass"
             /\ log[i].arg \in {"key3", "key4"} <=> log[i].fn = "ObjClass2"
      /\ <<o.proto>> \o ChainFrom(PrototypeLink(o.proto)) =
           <<"ObjClass2.prototype", "ObjClass.prototype", "Object.prototype">>
      /\ o.constructed =>
           /\ OwnKeys(o) = <<"key1", "key2", "key3", "key4">>
           /\ \A k \in {"key1", "key2", "key3", "key4"} :
                Lookup(o, k).holder = "own"
           /\ Lookup(o, "myFunction4") =
                [value |-> "myFunction4()", holder |-> "ObjClass2.prototype",
                 steps |-> 1]
           /\ Lookup(o, "myFunction2") =
                [value |-> "myFunction2()", holder |-> "ObjClass.prototype",
                 steps |-> 2]
           /\ Lookup(o, "constructor").value = "class ObjClass2"
           /\ Lookup(o, "constructor").holder = "ObjClass2.prototype"
           /\ Lookup(o, "__proto__") =
                [value |-> "ObjClass2.prototype", holder |-> "Object.prototype",
                 steps |-> 3]
           /\ LookupOnPrototype("ObjClass2.prototype", "__proto__").value =
                "ObjClass.prototype"
           /\ LookupOnPrototype("ObjClass.prototype", "__proto__").value =
                "Object.prototype"
           /\ LookupOnPrototype("Object.prototype", "__proto__").value = "null"
           /\ Lookup(o, "missing") =
                [value |-> "undefined", holder |-> "none", steps |-> 4]

\* new ObjClass2() has returned an instance.
C6_Witness ==
  \E id \in DOMAIN heap :
    /\ heap[id].class = "ObjClass2"
    /\ heap[id].constructed
    /\ Len(heap[id].own) = 4

====
